---- MODULE Spec2Model ----
(***************************************************************************)
(* The feedback CRUD backend (backend/src/handler.rs, schema.rs): six      *)
(* actix-web handlers over one Postgres table `feedbacks`.                 *)
(*                                                                         *)
(* State: the table, the store's id generator, the wall clock, the build   *)
(* profile (with or without integer overflow checks) and a fixed number of *)
(* request slots.  A slot holds the request a worker is serving or has     *)
(* served last, with the response it produced.  A handler awaits at most   *)
(* one SQL statement and is one atomic step, except the update handler,    *)
(* which awaits two (SELECT, then UPDATE) and is two steps: other requests *)
(* may run between them.  A response stays in its slot until the next      *)
(* request arrives.  Timestamps come from one clock that has advanced      *)
(* whenever a new timestamp is taken.                                      *)
(***************************************************************************)
EXTENDS Integers, Sequences, FiniteSets, TLC

\* ------------------------------------------------------------------ bounds
NumSlots == 2       \* requests served concurrently
MaxId    == 2       \* identifiers the store can hand out
MaxClock == 3       \* the clock stops the model here
WordBits == 5       \* width of usize / i64 in the model (64 in the build)

\* --------------------------------------------------------------- constants
DefaultLimit == 10  \* opts.limit.unwrap_or(10)
DefaultPage  == 1   \* opts.page.unwrap_or(1)

Slots   == 1..NumSlots
Ids     == 1..MaxId
Texts   == {"hello", "bye"}     \* CreateFeedbackSchema.text
Ratings == {-1, 5}              \* CreateFeedbackSchema.rating
Word    == 2 ^ WordBits

\* Option<T>: None is the empty sequence, Some(v) the sequence <<v>>.
None == << >>

Some(v) == <<v>>

unwrap_or(o, d) == IF o = None THEN d ELSE o[1]

Opt(S) == {None} \cup {Some(v) : v \in S}

\* FilterOptions { page: Option<usize>, limit: Option<usize> }
Pages  == Opt({0, 2, 5})

Limits == Opt({0, 1, 2 ^ (WordBits - 2), 2 ^ (WordBits - 1)})

\* UpdateFeedbackSchema { text: Option<String>, rating: Option<i32> }
EditTexts   == Opt({"bye"})

EditRatings == Opt({5})

VARIABLES
    store,            \* the table: id -> row, for the ids that have a row
    used,             \* every id the store has ever generated
    clock,            \* the time of the last timestamp taken
    overflow_checks,  \* build profile: TRUE panics on overflow, FALSE wraps
    req,              \* slot -> the request served there and its response
    pristine          \* id -> the (text, rating) it was created with, for the
                      \* rows no request has updated or deleted since (history)

vars == <<store, used, clock, overflow_checks, req, pristine>>

\* ------------------------------------------------------- integer arithmetic
\* `x as i64` of a usize: the same bits read as two's complement.
as_i64(u) == IF u >= Word \div 2 THEN u - Word ELSE u

\* Faulty variant of usize_sub: saturating_sub, which stops at 0.
usize_sub_saturating(a, b, checked) ==
    IF a - b < 0 THEN Some(0) ELSE Some(a - b)

\* usize `a - b` and `a * b`: no result when the build checks overflow and the
\* true result does not fit, the wrapped result otherwise.
usize_sub(a, b, checked) ==
    IF a - b < 0 /\ checked THEN None ELSE Some((a - b) % Word)

usize_mul(a, b, checked) ==
    IF a * b >= Word /\ checked THEN None ELSE Some((a * b) % Word)

\* (opts.page.unwrap_or(1) - 1) * limit
offset_of(page, limit, checked) ==
    LET d == usize_sub(unwrap_or(page, DefaultPage), 1, checked)
    IN  IF d = None THEN None ELSE usize_mul(d[1], limit, checked)

\* ---------------------------------------------------------------- the store
RECURSIVE SortedIds(_)
SortedIds(S) ==
    IF S = {} THEN << >>
    ELSE LET m == CHOOSE x \in S : \A y \in S : x <= y
         IN  <<m>> \o SortedIds(S \ {m})

Ok(rows) == [err |-> "", rows |-> rows]

Err(e) == [err |-> e, rows |-> << >>]

Min(a, b) == IF a <= b THEN a ELSE b

\* SELECT * FROM feedbacks ORDER by id LIMIT $1 OFFSET $2
SqlSelectPage(st, lim, off, up) ==
    LET ids == SortedIds(DOMAIN st)
    IN  IF ~up THEN Err("Io")
        ELSE IF lim < 0 \/ off < 0 THEN Err("Database")
        ELSE Ok([k \in 1..Min(lim, IF Len(ids) > off THEN Len(ids) - off ELSE 0)
                    |-> st[ids[off + k]]])

\* SELECT * FROM feedbacks WHERE id = $1
SqlSelectById(st, id, up) ==
    IF ~up THEN Err("Io")
    ELSE IF id \in DOMAIN st THEN Ok(<<st[id]>>) ELSE Ok(<< >>)

\* Faulty variant of SqlInsertRow: the rating narrowed to the shared entity's u8.
SqlInsertRow_u8(id, text, rating, t) ==
    [id |-> id, text |-> text, rating |-> rating % 256,
     created_at |-> t, updated_at |-> t]

\* INSERT INTO feedbacks (text, rating) VALUES ($1, $2) RETURNING *
SqlInsertRow(id, text, rating, t) ==
    [id |-> id, text |-> text, rating |-> rating,
     created_at |-> t, updated_at |-> t]

\* Faulty variant of SqlUpdate: $3 bound to created_at instead of updated_at.
SqlUpdate_created_at(st, id, text, rating, now) ==
    [i \in DOMAIN st |->
        IF i = id
        THEN [st[i] EXCEPT !.text = text, !.rating = rating, !.created_at = now]
        ELSE st[i]]

\* Faulty variant of SqlUpdate: the WHERE clause left out.
SqlUpdate_no_where(st, id, text, rating, now) ==
    [i \in DOMAIN st |->
        [st[i] EXCEPT !.text = text, !.rating = rating, !.updated_at = now]]

\* UPDATE feedbacks SET text = $1, rating = $2, updated_at = $3 WHERE id = $4
SqlUpdate(st, id, text, rating, now) ==
    [i \in DOMAIN st |->
        IF i = id
        THEN [st[i] EXCEPT !.text = text, !.rating = rating, !.updated_at = now]
        ELSE st[i]]

\* DELETE FROM feedbacks WHERE id = $1
SqlDelete(st, id) == [i \in DOMAIN st \ {id} |-> st[i]]

\* fetch_one: the first row, or RowNotFound
fetch_one(res) ==
    IF res.err # "" THEN res
    ELSE IF res.rows = << >> THEN Err("RowNotFound")
    ELSE Ok(<<res.rows[1]>>)

\* ------------------------------------------------------------ request slots
Idle ==
    [pc |-> "idle", kind |-> "none", id |-> 0, text |-> None, rating |-> None,
     page |-> None, limit |-> None, snap |-> None, now |-> 0,
     code |-> 0, status |-> "", feedbacks |-> << >>, results |-> 0,
     db_err |-> "", sql |-> None, panic |-> ""]

\* A new request is served in the first slot that is not awaiting a statement
\* (the slots are interchangeable).
Free(r) ==
    /\ req[r].pc # "write"
    /\ \A s \in Slots : s < r => req[s].pc = "write"

\* The slots once a request has arrived in slot r and run to q: the responses
\* already sent leave the system, the suspended handlers stay.
Arrive(r, q) ==
    [s \in Slots |->
        IF s = r THEN q ELSE IF req[s].pc = "write" THEN req[s] ELSE Idle]

\* HttpResponse with a JSON envelope
Respond(q, code, status, rows) ==
    [q EXCEPT !.pc = "done", !.code = code, !.status = status,
              !.feedbacks = rows, !.results = Len(rows)]

\* A panic unwinds the handler: no response is written.
Abort(q, why) == [q EXCEPT !.pc = "aborted", !.panic = why]

Drop(f, id) == [i \in DOMAIN f \ {id} |-> f[i]]

Init ==
    /\ store = << >>
    /\ used = {}
    /\ clock = 0
    /\ overflow_checks \in BOOLEAN
    /\ req = [r \in Slots |-> Idle]
    /\ pristine = << >>

\* -------------------------------------------------------------------- time
\* Utc::now() in a handler, and the store's default for created_at and
\* updated_at on INSERT: both read the one clock, which has advanced since the
\* last timestamp was taken.
utc_now == clock + 1

column_default_now == clock + 1

\* The store's default for id on INSERT: an identifier it never generated.
column_default_id == Ids \ used

\* ----------------------------------------------------------------- handlers
health_checker_handler(r) ==
    /\ Free(r)
    /\ req' = Arrive(r, Respond([Idle EXCEPT !.kind = "health"], 200, "", << >>))
    /\ UNCHANGED <<store, used, clock, overflow_checks, pristine>>

feedback_list_handler(r) ==
    /\ Free(r)
    /\ \E page \in Pages, lim \in Limits, up \in BOOLEAN :
         LET q      == [Idle EXCEPT !.kind = "list", !.page = page, !.limit = lim]
             limit  == unwrap_or(lim, DefaultLimit)
             offset == offset_of(page, limit, overflow_checks)
         IN  IF offset = None
             THEN req' = Arrive(r, Abort(q, "overflow"))
             ELSE LET l   == as_i64(limit)
                      o   == as_i64(offset[1])
                      res == SqlSelectPage(store, l, o, up)
                      qq  == [q EXCEPT !.sql = Some(<<l, o>>), !.db_err = res.err]
                  IN  req' = Arrive(r, IF res.err # ""
                                       THEN Respond(qq, 500, "error", << >>)
                                       ELSE Respond(qq, 200, "success", res.rows))
    /\ UNCHANGED <<store, used, clock, overflow_checks, pristine>>

\* The Err(e) arm of the create handler.
create_error(q, e) ==
    IF e = "duplicate key value violates unique constraint"
    THEN Respond(q, 400, "fail", << >>)
    ELSE Respond(q, 500, "error", << >>)

create_feedback_handler(r) ==
    /\ Free(r)
    /\ clock < MaxClock
    /\ \E text \in Texts, rating \in Ratings, up \in BOOLEAN :
         LET q == [Idle EXCEPT !.kind = "create", !.text = Some(text),
                               !.rating = Some(rating)]
         IN  IF up
             THEN \E id \in column_default_id :
                    LET row == SqlInsertRow(id, text, rating, column_default_now)
                    IN  /\ store' = (id :> row) @@ store
                        /\ used' = used \cup {id}
                        /\ clock' = column_default_now
                        /\ pristine' = (id :> [text |-> text, rating |-> rating])
                                          @@ pristine
                        /\ req' = Arrive(r, Respond(q, 200, "success", <<row>>))
             ELSE /\ req' = Arrive(r, create_error([q EXCEPT !.db_err = "Io"], "Io"))
                  /\ UNCHANGED <<store, used, clock, pristine>>
    /\ UNCHANGED overflow_checks

get_feedback_handler(r) ==
    /\ Free(r)
    /\ \E id \in Ids, up \in BOOLEAN :
         LET res == fetch_one(SqlSelectById(store, id, up))
             q   == [Idle EXCEPT !.kind = "get", !.id = id, !.db_err = res.err]
         IN  req' = Arrive(r, IF res.err = ""
                              THEN Respond(q, 200, "success", res.rows)
                              ELSE Respond(q, 404, "fail", << >>))
    /\ UNCHANGED <<store, used, clock, overflow_checks, pristine>>

\* The update handler up to its second await: the SELECT, the 404 return, and
\* `now` and `feedback` for the UPDATE it then issues.
edit_feedback_handler_select(r) ==
    /\ Free(r)
    /\ \E id \in Ids, text \in EditTexts, rating \in EditRatings, up \in BOOLEAN :
         LET res == fetch_one(SqlSelectById(store, id, up))
             q   == [Idle EXCEPT !.kind = "edit", !.id = id, !.text = text,
                                 !.rating = rating, !.db_err = res.err]
         IN  IF res.err # ""
             THEN /\ req' = Arrive(r, Respond(q, 404, "fail", << >>))
                  /\ UNCHANGED clock
             ELSE /\ clock < MaxClock
                  /\ clock' = utc_now
                  /\ req' = Arrive(r, [q EXCEPT !.pc = "write", !.snap = res.rows,
                                                !.now = utc_now])
    /\ UNCHANGED <<store, used, overflow_checks, pristine>>

\* The handler's locals are dropped when it returns.
Sent(q, e) == [q EXCEPT !.db_err = e, !.snap = None, !.now = 0]

\* Faulty variant of feedback: the row as stored when the UPDATE runs (the merge
\* done inside the statement).
feedback_in_statement(r) ==
    IF req[r].id \in DOMAIN store THEN store[req[r].id] ELSE req[r].snap[1]

\* `feedback`, the row the handler's SELECT returned.
feedback(r) == req[r].snap[1]

\* The update handler from its second await on: the UPDATE and the response.
edit_feedback_handler_update(r) ==
    /\ req[r].pc = "write"
    /\ \E up \in BOOLEAN :
         LET q    == req[r]
             text == unwrap_or(q.text, feedback(r).text)
             rate == unwrap_or(q.rating, feedback(r).rating)
             st   == IF up THEN SqlUpdate(store, q.id, text, rate, q.now) ELSE store
             res  == fetch_one(SqlSelectById(st, q.id, up))
         IN  /\ store' = st
             /\ pristine' = IF up THEN Drop(pristine, q.id) ELSE pristine
             /\ req' = [req EXCEPT ![r] =
                          IF res.err = ""
                          THEN Respond(Sent(q, ""), 200, "success", res.rows)
                          ELSE Respond(Sent(q, res.err), 500, "error", << >>)]
    /\ UNCHANGED <<used, clock, overflow_checks>>

delete_feedback_handler(r) ==
    /\ Free(r)
    /\ \E id \in Ids, up \in BOOLEAN :
         LET q == [Idle EXCEPT !.kind = "delete", !.id = id]
             rows_affected == Cardinality(DOMAIN store \ DOMAIN SqlDelete(store, id))
         IN  IF ~up
             THEN /\ req' = Arrive(r, Abort([q EXCEPT !.db_err = "Io"], "unwrap"))
                  /\ UNCHANGED <<store, pristine>>
             ELSE /\ store' = SqlDelete(store, id)
                  /\ pristine' = Drop(pristine, id)
                  /\ req' = Arrive(r, IF rows_affected = 0
                                      THEN Respond(q, 404, "fail", << >>)
                                      ELSE Respond(q, 204, "", << >>))
    /\ UNCHANGED <<used, clock, overflow_checks>>

Next ==
    \E r \in Slots :
        \/ health_checker_handler(r)
        \/ feedback_list_handler(r)
        \/ create_feedback_handler(r)
        \/ get_feedback_handler(r)
        \/ edit_feedback_handler_select(r)
        \/ edit_feedback_handler_update(r)
        \/ delete_feedback_handler(r)

Spec == Init /\ [][Next]_vars

\* ------------------------------------------------------- reading one step
\* The step is a request arriving in slot r and running to its first await,
\* its response or its panic; req'[r] then holds the request and the outcome.
Arrived(r) ==
    /\ req[r].pc # "write"
    /\ req'[r].pc # "idle"
    /\ req' = Arrive(r, req'[r])

\* The step is the update handler of slot r resuming after its UPDATE.
Returned(r) == req[r].pc = "write" /\ req'[r].pc # "write"

\* The rows at 0-based positions (page-1)*limit .. (page-1)*limit+limit-1 of
\* the table in ascending id order, in unbounded arithmetic.
ExpectedPage(st, page, limit) ==
    LET ids == SortedIds(DOMAIN st)
        lo  == (page - 1) * limit + 1
        hi  == Min(Len(ids), (page - 1) * limit + limit)
    IN  [k \in 1..(IF hi >= lo THEN hi - lo + 1 ELSE 0) |-> st[ids[lo + k - 1]]]

\* ------------------------------------------------------------------ claims

C2_Pagination ==
    [][\A r \in Slots :
        (Arrived(r) /\ req'[r].kind = "list" /\ req'[r].db_err = ""
            /\ unwrap_or(req'[r].page, DefaultPage) >= 1) =>
              /\ req'[r].code = 200
              /\ req'[r].feedbacks =
                    ExpectedPage(store, unwrap_or(req'[r].page, DefaultPage),
                                 unwrap_or(req'[r].limit, DefaultLimit))
              /\ req'[r].results = Len(req'[r].feedbacks)
      ]_vars

\* C3: a successful update whose body gives only `rating` leaves the row's text
\* at the value stored before the update, sets rating to the body's value, and
\* sets updated_at to a value strictly greater than the one stored before the
\* update.
C3_PartialUpdate ==
    [][\A r \in Slots :
        (Returned(r) /\ req'[r].code = 200
            /\ req[r].text = None /\ req[r].rating # None) =>
            LET id == req[r].id
            IN  /\ id \in DOMAIN store /\ id \in DOMAIN store'
                /\ store'[id].text = unwrap_or(req[r].text, store[id].text)
                /\ store'[id].rating = unwrap_or(req[r].rating, store[id].rating)
                /\ store'[id].updated_at > store[id].updated_at
      ]_vars

\* C4: once a delete has removed an id (204), a get of that id returns 404, and
\* another delete of it returns 404 and leaves the store unchanged.
C4_DeleteIdempotent ==
    [][\A r \in Slots :
        (Arrived(r) /\ req'[r].id \in used \ DOMAIN store) =>
            /\ req'[r].kind = "get" => req'[r].code = 404
            /\ req'[r].kind = "delete" =>
                  /\ req'[r].pc = "done"
                  /\ req'[r].code = 404
                  /\ store' = store
      ]_vars

\* C5: a get or an update of an id that has no row answers 404 "fail", never
\* 500, whatever other requests ran in between (stated here for the updates
\* whose UPDATE statement reaches the store: the store answers, and finds no
\* row).
C5_AbsentIs404 ==
    [][\A r \in Slots :
        /\ (Arrived(r) /\ req'[r].kind \in {"get", "edit"}
                /\ req'[r].id \notin DOMAIN store) =>
              /\ req'[r].pc = "done"
              /\ req'[r].code = 404
              /\ req'[r].status = "fail"
        /\ (Returned(r) /\ req[r].id \notin DOMAIN store
                /\ req'[r].db_err # "Io") =>
              /\ req'[r].code = 404
              /\ req'[r].status = "fail"
      ]_vars

\* C6: a request whose store call failed has been answered with one response;
\* no store failure ends a handler without a response.
C6_ErrorBoundary ==
    \A r \in Slots :
        req[r].db_err # "" => (req[r].pc = "done" /\ req[r].code # 0)

C8_LifecycleFrame ==
    [][/\ \A id \in DOMAIN store \cap DOMAIN store' :
            /\ store'[id].id = store[id].id
            /\ store'[id].created_at = store[id].created_at
            /\ store'[id] # store[id] =>
                  \E r \in Slots : Returned(r) /\ req[r].kind = "edit" /\ req[r].id = id
       /\ \A id \in DOMAIN store' \ DOMAIN store :
            /\ id \notin used
            /\ store'[id].id = id
            /\ \E r \in Slots : Arrived(r) /\ req'[r].kind = "create"
       /\ \A id \in DOMAIN store \ DOMAIN store' :
            \E r \in Slots : Arrived(r) /\ req'[r].kind = "delete" /\ req'[r].id = id
       /\ \A r \in Slots :
            /\ (Arrived(r) /\ req'[r].kind \in {"health", "list", "get"}) =>
                  store' = store
            /\ (Returned(r) \/ (Arrived(r) /\ req'[r].kind \in {"edit", "delete"})) =>
                  \A id \in Ids \ {req'[r].id} :
                      /\ id \in DOMAIN store <=> id \in DOMAIN store'
                      /\ id \in DOMAIN store => store'[id] = store[id]
      ]_vars

\* C8 witness: two rows, one just rewritten by an update, the other still as
\* it was created.
C8_Witness ==
    \E r \in Slots, other \in DOMAIN store :
        /\ req[r].kind = "edit" /\ req[r].code = 200
        /\ req[r].id \in DOMAIN store /\ other # req[r].id
        /\ store[req[r].id] = req[r].feedbacks[1]
        /\ store[req[r].id].updated_at > store[req[r].id].created_at
        /\ store[other].updated_at = store[other].created_at
        /\ other \in DOMAIN pristine

\* C9: the UPDATE of an update request, when the row exists and the statement
\* does not fail, is answered 200 and writes the body's values over the row the
\* handler read earlier, whatever the row holds by then: every field the body
\* omits is set back to the value the handler read.
C9_LostUpdate ==
    [][\A r \in Slots :
        (Returned(r) /\ req[r].id \in DOMAIN store /\ req'[r].db_err # "Io") =>
            /\ req'[r].code = 200
            /\ store'[req[r].id].text = unwrap_or(req[r].text, req[r].snap[1].text)
            /\ store'[req[r].id].rating = unwrap_or(req[r].rating, req[r].snap[1].rating)
            /\ store'[req[r].id].updated_at = req[r].now
      ]_vars

\* C9 witness: two updates of one row, one giving only text and one only
\* rating, have both returned 200; the response of the first showed its new
\* text, and the stored row holds the second's values and the old text.
C9_Witness ==
    \E r1, r2 \in Slots :
        /\ r1 # r2
        /\ req[r1].kind = "edit" /\ req[r1].code = 200
        /\ req[r2].kind = "edit" /\ req[r2].code = 200
        /\ req[r1].id = req[r2].id /\ req[r1].id \in DOMAIN store
        /\ req[r1].text # None /\ req[r1].rating = None
        /\ req[r2].text = None /\ req[r2].rating # None
        /\ req[r1].feedbacks[1].text = req[r1].text[1]
        /\ store[req[r1].id] = req[r2].feedbacks[1]
        /\ store[req[r1].id].rating = req[r2].rating[1]
        /\ store[req[r1].id].text # req[r1].text[1]

\* C10 (as stated): for page = 0 the list handler issues the store query with
\* a negative offset equal to -limit.
C10_PageZero_AsStated ==
    [][\A r \in Slots :
        (Arrived(r) /\ req'[r].kind = "list" /\ req'[r].page = Some(0)) =>
            /\ req'[r].sql # None
            /\ req'[r].sql[1][2] < 0
            /\ req'[r].sql[1][2] = 0 - unwrap_or(req'[r].limit, DefaultLimit)
      ]_vars

\* C10 (amended): with no page and no limit the query gets LIMIT 10 OFFSET 0.
\* For page = 0, a build without overflow checks issues the query with the
\* offset that is the two's-complement negation of limit (offset + limit = 0
\* modulo the word), which is -limit, negative, when 0 < limit < 2^(w-1) and 0
\* when limit = 0; a build with overflow checks panics at the subtraction and
\* issues no query.
C10_PageZero ==
    [][\A r \in Slots :
        (Arrived(r) /\ req'[r].kind = "list") =>
            LET limit == unwrap_or(req'[r].limit, DefaultLimit)
            IN  /\ (req'[r].page = None /\ req'[r].limit = None) =>
                      req'[r].sql = Some(<<10, 0>>)
                /\ (req'[r].page = Some(0) /\ ~overflow_checks) =>
                      /\ req'[r].pc = "done"
                      /\ req'[r].sql # None
                      /\ req'[r].sql[1][1] = as_i64(limit)
                      /\ (req'[r].sql[1][2] + limit) % Word = 0
                      /\ (0 < limit /\ limit < Word \div 2) =>
                            (req'[r].sql[1][2] = 0 - limit /\ req'[r].sql[1][2] < 0)
                      /\ limit = 0 => req'[r].sql[1][2] = 0
                /\ (req'[r].page = Some(0) /\ overflow_checks) =>
                      /\ req'[r].pc = "aborted"
                      /\ req'[r].sql = None
      ]_vars

\* C10 witness: a list request with page = 0 and the default limit has reached
\* the store with OFFSET -10.
C10_Witness ==
    \E r \in Slots :
        /\ req[r].kind = "list" /\ req[r].page = Some(0) /\ req[r].limit = None
        /\ req[r].sql = Some(<<10, -10>>)

\* ------------------------------------------- what holds beside C2 .. C6
\* C2, short of overflow: when (page-1)*limit fits the word, the list handler
\* returns exactly the page the claim describes.
C2_Pagination_NoOverflow ==
    [][\A r \in Slots :
        (Arrived(r) /\ req'[r].kind = "list" /\ req'[r].db_err = ""
            /\ unwrap_or(req'[r].page, DefaultPage) >= 1
            /\ (unwrap_or(req'[r].page, DefaultPage) - 1)
                  * unwrap_or(req'[r].limit, DefaultLimit) < Word) =>
              /\ req'[r].code = 200
              /\ req'[r].feedbacks =
                    ExpectedPage(store, unwrap_or(req'[r].page, DefaultPage),
                                 unwrap_or(req'[r].limit, DefaultLimit))
              /\ req'[r].results = Len(req'[r].feedbacks)
      ]_vars

\* C3, short of the race: when the row is still as the handler read it, a
\* successful update keeps the fields the body omits, sets the ones it gives
\* and strictly raises updated_at.
C3_PartialUpdate_Unraced ==
    [][\A r \in Slots :
        (Returned(r) /\ req'[r].code = 200 /\ req[r].id \in DOMAIN store
            /\ store[req[r].id] = req[r].snap[1]) =>
            LET id == req[r].id
            IN  /\ store'[id].text = unwrap_or(req[r].text, store[id].text)
                /\ store'[id].rating = unwrap_or(req[r].rating, store[id].rating)
                /\ store'[id].updated_at > store[id].updated_at
      ]_vars

\* C4, short of a store failure: a get of a removed id returns 404, and a
\* delete of it that reaches the store returns 404 and changes nothing.
C4_DeleteIdempotent_StoreUp ==
    [][\A r \in Slots :
        (Arrived(r) /\ req'[r].id \in used \ DOMAIN store) =>
            /\ req'[r].kind = "get" => req'[r].code = 404
            /\ (req'[r].kind = "delete" /\ req'[r].db_err = "") =>
                  /\ req'[r].pc = "done"
                  /\ req'[r].code = 404
                  /\ store' = store
      ]_vars

\* C5, at the handler's SELECT: a get or an update whose SELECT runs while the
\* id has no row answers 404 "fail", store failure or not.
C5_AbsentAtSelectIs404 ==
    [][\A r \in Slots :
        (Arrived(r) /\ req'[r].kind \in {"get", "edit"}
            /\ req'[r].id \notin DOMAIN store) =>
              /\ req'[r].pc = "done"
              /\ req'[r].code = 404
              /\ req'[r].status = "fail"
      ]_vars

\* C6, for the handlers other than delete: a failed store call is answered.
C6_ErrorBoundary_ExceptDelete ==
    \A r \in Slots :
        (req[r].db_err # "" /\ req[r].kind # "delete") =>
            (req[r].pc = "done" /\ req[r].code \in {404, 500})

====
